---- MODULE Spec2Model ----
(***************************************************************************)
(* Frame loop of the imperium engine: App::exec_frame driving the window  *)
(* event poll, the scene's MeshRenderSystem (SpatialPass::next,           *)
(* FrameAggregator::acquire_next, Frame::begin_render), Renderer::render  *)
(* and the lazy Surface::rebuild, with the GPU completing submitted work  *)
(* asynchronously.                                                         *)
(***************************************************************************)
EXTENDS Integers, FiniteSets, Sequences, TLC

\* Number of swapchain images (= framebuffers handed to FrameAggregator::new).
NumImages == 2
\* Saturation of the per-slot count of submissions still executing on the GPU.
InFlightCap == 2
\* Saturation of the count of did_rebuild reads that returned true.
ReadCap == 2

Slots == 0 .. (NumImages - 1)

EventKinds == {"Resized", "CloseRequested", "Other"}

None == [is_some |-> FALSE]
Some(v) == [is_some |-> TRUE, val |-> v]

Min(a, b) == IF a < b THEN a ELSE b

VARIABLES
    pc,                 \* position of the render thread inside exec_frame
    events,             \* the batch returned by the last poll_events
    should_terminate,   \* AppInterface.should_terminate
    is_valid,           \* Surface.is_valid
    did_rebuild,        \* Surface.did_rebuild (one-shot "just rebuilt")
    surface,            \* the surface's framebuffers / image views / swapchain
    agg,                \* SpatialPass.frame_aggregator
    agg_stale,          \* swapchain rebuilt since agg's framebuffers were made
    frame,              \* the Frame returned by acquire_next, if any
    cmd,                \* state of the frame's one-shot command buffer
    submission,         \* the gfx::Submission of the current begin_render
    presentation,       \* the present call of the current begin_render
    inflight,           \* per slot: submissions not yet completed by the GPU
    acq_result,         \* outcome of this tick's acquire_next
    prev_acq,           \* outcome of the previous tick's acquire_next
    present_result,     \* what this tick's begin_render returned
    last_si,            \* index returned by the last next_acq_pre_pair_index
    agg_calls,          \* calls of next_acq_pre_pair_index on agg, modulo N
    true_reads,         \* reads of did_rebuild that returned true since rebuild
    tick_since_rebuild, \* an exec_frame has ended valid since the last rebuild
    call,               \* resource layer: the operation called and its inputs
    ret                 \* resource layer: what the operation returned

frame_vars == << pc, events, should_terminate, is_valid, did_rebuild, surface,
                 agg, agg_stale, frame, cmd, submission, presentation,
                 inflight, acq_result, prev_acq, present_result, last_si,
                 agg_calls, true_reads, tick_since_rebuild >>

res_vars == << call, ret >>

vars == << frame_vars, res_vars >>

-----------------------------------------------------------------------------
\* Surface flags

SurfaceInvalidate(valid) == FALSE

SurfaceMarkRebuilt == [is_valid |-> TRUE, did_rebuild |-> TRUE]

-----------------------------------------------------------------------------
\* FrameAggregator

Obj(kind, i) == [kind |-> kind, slot |-> i]

FrameAggregatorNew(count) ==
    [ framebuffers       |-> [i \in 0 .. (count - 1) |-> Obj("framebuffer", i)],
      command_pools      |-> [i \in 0 .. (count - 1) |-> Obj("command_pool", i)],
      framebuffer_fences |-> [i \in 0 .. (count - 1) |-> Obj("fence", i)],
      acquire_semaphores |-> [i \in 0 .. (count - 1) |-> Obj("acquire_semaphore", i)],
      present_semaphores |-> [i \in 0 .. (count - 1) |-> Obj("present_semaphore", i)],
      last_ref           |-> 0 ]

FrameAggregatorCreate == FrameAggregatorNew(NumImages)

SemaphoreCount(a) == Cardinality(DOMAIN a.acquire_semaphores)

NextAcqPrePairIndexSkipsLast(a) ==
    LET lr == IF a.last_ref >= SemaphoreCount(a) - 1 THEN 0 ELSE a.last_ref
    IN  [ret |-> lr, agg |-> [a EXCEPT !.last_ref = lr + 1]]

NextAcqPrePairIndex(a) ==
    LET lr == IF a.last_ref >= SemaphoreCount(a) THEN 0 ELSE a.last_ref
    IN  [ret |-> lr, agg |-> [a EXCEPT !.last_ref = lr + 1]]

\* The outcomes of swapchain.acquire_image: Err, or Ok(image index).
AcquireErr == [ok |-> FALSE]
AcquireOk(i) == [ok |-> TRUE, index |-> i]
AcquireResults == {AcquireErr} \cup {AcquireOk(i) : i \in Slots}

AcquireNextIndicesNoNone(a, res) ==
    IF SemaphoreCount(a) # 0
    THEN LET n == NextAcqPrePairIndex(a)
         IN  IF res.ok
             THEN [agg |-> n.agg, called |-> TRUE, si |-> n.ret,
                   out |-> Some(<<res.index, n.ret>>)]
             ELSE [agg |-> n.agg, called |-> TRUE, si |-> n.ret,
                   out |-> Some(<<0, n.ret>>)]
    ELSE [agg |-> a, called |-> FALSE, si |-> 0, out |-> None]

AcquireNextIndices(a, res) ==
    IF SemaphoreCount(a) # 0
    THEN LET n == NextAcqPrePairIndex(a)
         IN  IF res.ok
             THEN [agg |-> n.agg, called |-> TRUE, si |-> n.ret,
                   out |-> Some(<<res.index, n.ret>>)]
             ELSE [agg |-> n.agg, called |-> TRUE, si |-> n.ret, out |-> None]
    ELSE [agg |-> a, called |-> FALSE, si |-> 0, out |-> None]

NextFramePoolBySemaphore(a, frame_index, semaphore_index) ==
    [ frame_index       |-> frame_index,
      framebuffer       |-> a.framebuffers[frame_index],
      command_pool      |-> a.command_pools[semaphore_index],
      framebuffer_fence |-> a.framebuffer_fences[frame_index],
      acquire_semaphore |-> a.acquire_semaphores[semaphore_index],
      present_semaphore |-> a.present_semaphores[semaphore_index] ]

NextFrame(a, frame_index, semaphore_index) ==
    [ frame_index       |-> frame_index,
      framebuffer       |-> a.framebuffers[frame_index],
      command_pool      |-> a.command_pools[frame_index],
      framebuffer_fence |-> a.framebuffer_fences[frame_index],
      acquire_semaphore |-> a.acquire_semaphores[semaphore_index],
      present_semaphore |-> a.present_semaphores[semaphore_index] ]

-----------------------------------------------------------------------------
\* Frame::begin_render

FrameSubmission(fr) ==
    [ wait_semaphore   |-> fr.acquire_semaphore,
      signal_semaphore |-> fr.present_semaphore,
      fence            |-> fr.framebuffer_fence ]

FramePresentWaitsOnAcquire(fr) ==
    [ image |-> fr.frame_index, wait_semaphore |-> fr.acquire_semaphore ]

FramePresent(fr) ==
    [ image |-> fr.frame_index, wait_semaphore |-> fr.present_semaphore ]

\* MeshRenderSystem::run calls frame.begin_render(..) as a statement: the
\* returned boolean is dropped and the surface's validity is left as it was.
MeshRenderSystemValidAfter(valid, presented_ok) == valid

\* The boolean Renderer::render hands to exec_frame.
RendererRenderResults == BOOLEAN

-----------------------------------------------------------------------------
\* AppInterface::poll_events, App::exec_frame, Surface::destroy

PollEventsValidOnClose(valid, batch) ==
    IF "Resized" \in batch \/ "CloseRequested" \in batch
    THEN SurfaceInvalidate(valid) ELSE valid

PollEventsValid(valid, batch) ==
    IF "Resized" \in batch THEN SurfaceInvalidate(valid) ELSE valid

PollEventsTerminate(term, batch) ==
    IF "CloseRequested" \in batch THEN TRUE ELSE term

\* The flag after the tail of exec_frame when the surface is still valid.
ExecFrameClearFlagNever(did) == did

ExecFrameClearFlag(did) == IF did THEN FALSE ELSE did

DeviceWaitIdleSkipped(fl) == fl

DeviceWaitIdle(fl) == [i \in DOMAIN fl |-> 0]

-----------------------------------------------------------------------------
InitFrame ==
    /\ pc = "poll"
    /\ events = {}
    /\ should_terminate = FALSE
    /\ is_valid = TRUE
    /\ did_rebuild = FALSE
    /\ surface = "live"
    /\ agg = FrameAggregatorCreate
    /\ agg_stale = FALSE
    /\ frame = None
    /\ cmd = "none"
    /\ submission = None
    /\ presentation = None
    /\ inflight = [i \in Slots |-> 0]
    /\ acq_result = "none"
    /\ prev_acq = "none"
    /\ present_result = "none"
    /\ last_si = 0
    /\ agg_calls = 0
    /\ true_reads = 0
    /\ tick_since_rebuild = TRUE

\* No resource-layer call is under way while the frame loop runs.
NoCall == [op |-> "none"]
NotRun == [done |-> FALSE]

Init ==
    /\ InitFrame
    /\ call = NoCall
    /\ ret = NotRun

\* AppInterface::poll_events
PollEvents ==
    /\ pc = "poll"
    /\ \E batch \in SUBSET EventKinds :
          /\ events' = batch
          /\ should_terminate' = PollEventsTerminate(should_terminate, batch)
          /\ is_valid' = PollEventsValid(is_valid, batch)
    /\ pc' = "update"
    /\ frame' = None
    /\ cmd' = "none"
    /\ submission' = None
    /\ presentation' = None
    /\ prev_acq' = acq_result
    /\ acq_result' = "none"
    /\ present_result' = "none"
    /\ UNCHANGED << did_rebuild, surface, agg, agg_stale, inflight, last_si,
                    agg_calls, true_reads, tick_since_rebuild >>
    /\ UNCHANGED res_vars

\* View::update dispatching the scene's systems: MeshRenderSystem::run starts.
ViewDispatchScene ==
    /\ pc = "update"
    /\ pc' = "pass_next"
    /\ UNCHANGED << events, should_terminate, is_valid, did_rebuild, surface,
                    agg, agg_stale, frame, cmd, submission, presentation,
                    inflight, acq_result, prev_acq, present_result, last_si,
                    agg_calls, true_reads, tick_since_rebuild >>
    /\ UNCHANGED res_vars

\* A tick in which MeshRenderSystem::run does not render (no graphics lent).
ViewSkipScene ==
    /\ pc = "update"
    /\ pc' = "render"
    /\ UNCHANGED << events, should_terminate, is_valid, did_rebuild, surface,
                    agg, agg_stale, frame, cmd, submission, presentation,
                    inflight, acq_result, prev_acq, present_result, last_si,
                    agg_calls, true_reads, tick_since_rebuild >>
    /\ UNCHANGED res_vars

\* SpatialPass::next with FrameAggregator::acquire_next
SpatialPassNext ==
    /\ pc = "pass_next"
    /\ \E res \in AcquireResults :
          LET a0 == IF did_rebuild THEN FrameAggregatorCreate ELSE agg
              calls0 == IF did_rebuild THEN 0 ELSE agg_calls
              r  == AcquireNextIndices(a0, res)
          IN  /\ agg' = r.agg
              /\ last_si' = IF r.called THEN r.si ELSE last_si
              /\ agg_calls' = IF r.called
                              THEN (calls0 + 1) % NumImages ELSE calls0
              /\ acq_result' = IF r.called /\ res.ok THEN "ok" ELSE "failed"
              /\ IF r.out.is_some
                 THEN /\ frame' = Some(NextFrame(r.agg, r.out.val[1], r.out.val[2]))
                      /\ is_valid' = is_valid
                      /\ pc' = "record"
                 ELSE /\ frame' = None
                      /\ is_valid' = SurfaceInvalidate(is_valid)
                      /\ pc' = "render"
    /\ agg_stale' = IF did_rebuild THEN FALSE ELSE agg_stale
    /\ true_reads' = IF did_rebuild THEN Min(true_reads + 1, ReadCap)
                     ELSE true_reads
    /\ UNCHANGED << events, should_terminate, did_rebuild, surface, cmd,
                    submission, presentation, inflight, prev_acq,
                    present_result, tick_since_rebuild >>
    /\ UNCHANGED res_vars

\* Frame::begin_render: CommandBuffer::new and the recording closure
BeginRenderRecord ==
    /\ pc = "record"
    /\ cmd' = "recorded"
    /\ pc' = "finish"
    /\ UNCHANGED << events, should_terminate, is_valid, did_rebuild, surface,
                    agg, agg_stale, frame, submission, presentation, inflight,
                    acq_result, prev_acq, present_result, last_si, agg_calls,
                    true_reads, tick_since_rebuild >>
    /\ UNCHANGED res_vars

\* Frame::begin_render: cmd_buffer.finish()
BeginRenderFinish ==
    /\ pc = "finish"
    /\ cmd' = "finished"
    /\ pc' = "submit"
    /\ UNCHANGED << events, should_terminate, is_valid, did_rebuild, surface,
                    agg, agg_stale, frame, submission, presentation, inflight,
                    acq_result, prev_acq, present_result, last_si, agg_calls,
                    true_reads, tick_since_rebuild >>
    /\ UNCHANGED res_vars

\* Frame::begin_render: queue.submit(submission, Some(framebuffer_fence))
BeginRenderSubmit ==
    /\ pc = "submit"
    /\ submission' = Some(FrameSubmission(frame.val))
    /\ cmd' = "submitted"
    /\ inflight' = [inflight EXCEPT ![frame.val.framebuffer_fence.slot] =
                                        Min(@ + 1, InFlightCap)]
    /\ pc' = "present"
    /\ UNCHANGED << events, should_terminate, is_valid, did_rebuild, surface,
                    agg, agg_stale, frame, presentation, acq_result, prev_acq,
                    present_result, last_si, agg_calls, true_reads,
                    tick_since_rebuild >>
    /\ UNCHANGED res_vars

\* Frame::begin_render: swapchain.present, and the return to
\* MeshRenderSystem::run, which drops the returned boolean.
BeginRenderPresent ==
    /\ pc = "present"
    /\ presentation' = Some(FramePresent(frame.val))
    /\ \E ok \in BOOLEAN :
          /\ present_result' = IF ok THEN "ok" ELSE "failed"
          /\ is_valid' = MeshRenderSystemValidAfter(is_valid, ok)
    /\ pc' = "render"
    /\ UNCHANGED << events, should_terminate, did_rebuild, surface,
                    agg, agg_stale, frame, cmd, submission, inflight,
                    acq_result, prev_acq, last_si, agg_calls, true_reads,
                    tick_since_rebuild >>
    /\ UNCHANGED res_vars

\* App::exec_frame: renderer.render(..) and the reaction to its result
RendererRender ==
    /\ pc = "render"
    /\ \E ok \in RendererRenderResults :
          is_valid' = IF ~ok THEN SurfaceInvalidate(is_valid) ELSE is_valid
    /\ pc' = "tick_end"
    /\ UNCHANGED << events, should_terminate, did_rebuild, surface, agg,
                    agg_stale, frame, cmd, submission, presentation, inflight,
                    acq_result, prev_acq, present_result, last_si, agg_calls,
                    true_reads, tick_since_rebuild >>
    /\ UNCHANGED res_vars

\* The tail of exec_frame with the validity test left out.
ExecFrameNeedsRebuildNever(valid) == FALSE

\* if !render_surface.is_valid { render_surface.rebuild(..) }
ExecFrameNeedsRebuild(valid) == ~valid

\* App::exec_frame: the tail that rebuilds or clears the one-shot flag
ExecFrameEnd ==
    /\ pc = "tick_end"
    /\ IF ExecFrameNeedsRebuild(is_valid)
       THEN /\ pc' = "rb_wait"
            /\ UNCHANGED << did_rebuild, true_reads, tick_since_rebuild >>
       ELSE /\ pc' = "poll"
            /\ did_rebuild' = ExecFrameClearFlag(did_rebuild)
            /\ true_reads' = IF did_rebuild THEN Min(true_reads + 1, ReadCap)
                             ELSE true_reads
            /\ tick_since_rebuild' = TRUE
    /\ UNCHANGED << events, should_terminate, is_valid, surface, agg,
                    agg_stale, frame, cmd, submission, presentation, inflight,
                    acq_result, prev_acq, present_result, last_si, agg_calls >>
    /\ UNCHANGED res_vars

\* Surface::destroy: device.wait_idle()
SurfaceWaitIdle ==
    /\ pc = "rb_wait"
    /\ inflight' = DeviceWaitIdle(inflight)
    /\ pc' = "rb_destroy"
    /\ UNCHANGED << events, should_terminate, is_valid, did_rebuild, surface,
                    agg, agg_stale, frame, cmd, submission, presentation,
                    acq_result, prev_acq, present_result, last_si, agg_calls,
                    true_reads, tick_since_rebuild >>
    /\ UNCHANGED res_vars

\* Surface::destroy: framebuffers, image views and swapchain destroyed
SurfaceDestroy ==
    /\ pc = "rb_destroy"
    /\ surface' = "destroyed"
    /\ pc' = "rb_create"
    /\ UNCHANGED << events, should_terminate, is_valid, did_rebuild, agg,
                    agg_stale, frame, cmd, submission, presentation, inflight,
                    acq_result, prev_acq, present_result, last_si, agg_calls,
                    true_reads, tick_since_rebuild >>
    /\ UNCHANGED res_vars

\* Surface::rebuild: new swapchain, image views, framebuffers; flags set
SurfaceRebuild ==
    /\ pc = "rb_create"
    /\ surface' = "live"
    /\ is_valid' = SurfaceMarkRebuilt.is_valid
    /\ did_rebuild' = SurfaceMarkRebuilt.did_rebuild
    /\ agg_stale' = TRUE
    /\ true_reads' = 0
    /\ tick_since_rebuild' = FALSE
    /\ pc' = "poll"
    /\ UNCHANGED << events, should_terminate, agg, frame, cmd, submission,
                    presentation, inflight, acq_result, prev_acq,
                    present_result, last_si, agg_calls >>
    /\ UNCHANGED res_vars

\* The GPU finishes one submission of a slot (its fence becomes signalled).
GpuComplete ==
    /\ \E i \in Slots :
          /\ inflight[i] > 0
          /\ inflight' = [inflight EXCEPT ![i] = @ - 1]
    /\ UNCHANGED << pc, events, should_terminate, is_valid, did_rebuild,
                    surface, agg, agg_stale, frame, cmd, submission,
                    presentation, acq_result, prev_acq, present_result,
                    last_si, agg_calls, true_reads, tick_since_rebuild >>
    /\ UNCHANGED res_vars

Next ==
    \/ PollEvents
    \/ ViewDispatchScene
    \/ ViewSkipScene
    \/ SpatialPassNext
    \/ BeginRenderRecord
    \/ BeginRenderFinish
    \/ BeginRenderSubmit
    \/ BeginRenderPresent
    \/ RendererRender
    \/ ExecFrameEnd
    \/ SurfaceWaitIdle
    \/ SurfaceDestroy
    \/ SurfaceRebuild
    \/ GpuComplete

Spec == Init /\ [][Next]_vars

-----------------------------------------------------------------------------
RenderPcs == {"record", "finish", "submit", "present"}
RebuildPcs == {"rb_wait", "rb_destroy", "rb_create"}

TypeOK ==
    /\ pc \in {"poll", "update", "pass_next", "render", "tick_end"}
              \cup RenderPcs \cup RebuildPcs
    /\ events \subseteq EventKinds
    /\ is_valid \in BOOLEAN /\ did_rebuild \in BOOLEAN
    /\ surface \in {"live", "destroyed"}
    /\ inflight \in [Slots -> 0 .. InFlightCap]
    /\ agg.last_ref \in 0 .. NumImages

-----------------------------------------------------------------------------
AllIdle == \A i \in Slots : inflight[i] = 0

\* C1: frame slot exclusivity - a slot that was already submitted has its
\* fence waited on before it is recorded and submitted again, so no slot ever
\* has more than one submission in flight.
C1_SlotExclusive == \A i \in Slots : inflight[i] <= 1

\* C2: while the surface is invalid no swapchain image is acquired and no
\* frame is recorded, submitted or presented; rebuild() runs first.
C2_NoFrameWhileInvalid == pc \in RenderPcs => is_valid

C4_IdleBeforeDestroy ==
    [][ /\ (surface = "live" /\ surface' = "destroyed"
              => pc = "rb_destroy" /\ AllIdle)
        /\ (surface' = "destroyed" => AllIdle')
        /\ (pc = "rb_create" /\ pc' # "rb_create"
              => surface = "destroyed" /\ surface' = "live") ]_vars

C4_Witness ==
    pc = "rb_create" /\ surface = "destroyed" /\ cmd = "submitted"

\* C5: whenever begin_render reports a failed present, its caller has marked
\* the surface invalid by the time it goes on.
C5_FailedPresentInvalidates ==
    (pc \in {"render", "tick_end"} /\ present_result = "failed") => ~is_valid

C7_FailedAcquireSkipsFrame ==
    acq_result = "failed" =>
        /\ ~frame.is_some
        /\ cmd = "none"
        /\ ~submission.is_some
        /\ ~presentation.is_some
        /\ pc \in {"render", "tick_end", "poll"} \cup RebuildPcs
        /\ (pc \in {"render", "tick_end"} => ~is_valid)
        /\ (pc = "poll" => is_valid /\ did_rebuild)

C7_Witness ==
    prev_acq = "failed" /\ acq_result = "ok" /\ pc = "record"

\* C8: the semaphore-pair index is the number of earlier calls on this
\* aggregator modulo N, whatever image the swapchain returned and whether or
\* not the acquire succeeded; it is always below N.
C8_RoundRobin ==
    /\ NextAcqPrePairIndex(agg).ret = agg_calls
    /\ NextAcqPrePairIndex(agg).ret \in Slots
    /\ (agg.last_ref > 0 =>
          /\ last_si = (agg_calls + NumImages - 1) % NumImages
          /\ last_si \in Slots)

C8_Witness ==
    /\ agg.last_ref = NumImages
    /\ acq_result = "ok"
    /\ frame.is_some
    /\ frame.val.frame_index = 0

\* C9: a Frame holds the framebuffer, command pool and fence of the acquired
\* image's index and the two semaphores of the round-robin index; the
\* aggregator has one of each object per swapchain image.
C9_FrameBinding ==
    /\ DOMAIN agg.framebuffers = Slots
    /\ DOMAIN agg.command_pools = Slots
    /\ DOMAIN agg.framebuffer_fences = Slots
    /\ DOMAIN agg.acquire_semaphores = Slots
    /\ DOMAIN agg.present_semaphores = Slots
    /\ frame.is_some =>
          LET f == frame.val
          IN  /\ f.frame_index \in Slots
              /\ last_si \in Slots
              /\ f.framebuffer = Obj("framebuffer", f.frame_index)
              /\ f.command_pool = Obj("command_pool", f.frame_index)
              /\ f.framebuffer_fence = Obj("fence", f.frame_index)
              /\ f.acquire_semaphore = Obj("acquire_semaphore", last_si)
              /\ f.present_semaphore = Obj("present_semaphore", last_si)

C9_Witness ==
    frame.is_some /\ frame.val.frame_index # last_si

\* C10: begin_render records, then finishes, then submits waiting on the
\* frame's acquire semaphore and signalling its present semaphore and slot
\* fence, then presents the acquired image waiting on the semaphore that the
\* submission signals.
C10_BeginRenderOrder ==
    /\ (pc = "record" => cmd = "none")
    /\ (pc = "finish" => cmd = "recorded")
    /\ (pc = "submit" => cmd = "finished")
    /\ (pc \in {"record", "finish", "submit"}
          => ~submission.is_some /\ ~presentation.is_some)
    /\ (pc = "present" => cmd = "submitted" /\ ~presentation.is_some)
    /\ (submission.is_some =>
          /\ frame.is_some
          /\ cmd = "submitted"
          /\ submission.val.wait_semaphore = frame.val.acquire_semaphore
          /\ submission.val.signal_semaphore = frame.val.present_semaphore
          /\ submission.val.fence = frame.val.framebuffer_fence
          /\ submission.val.fence.slot = frame.val.frame_index)
    /\ (presentation.is_some =>
          /\ submission.is_some
          /\ presentation.val.image = frame.val.frame_index
          /\ presentation.val.wait_semaphore = submission.val.signal_semaphore
          /\ presentation.val.wait_semaphore.kind = "present_semaphore")

C10_Witness ==
    /\ presentation.is_some
    /\ present_result = "ok"
    /\ frame.val.frame_index # last_si

-----------------------------------------------------------------------------
\* C11: the one-shot flag is cleared only after its consumer, SpatialPass,
\* has observed it and recreated its frame aggregator: it never falls while
\* the aggregator still predates the last rebuild.
C11_ClearedAfterConsumerReacted ==
    [][ did_rebuild /\ ~did_rebuild' => ~agg_stale ]_vars

-----------------------------------------------------------------------------
\* Resource layer: Device memory-type resolution
\* Largest number of adapter memory types.
MaxMemTypes == 3

MemProps == {"DEVICE_LOCAL", "CPU_VISIBLE"}

Pow2(n) == 2 ^ n

\* req.type_mask & (1_u64 << id) != 0
TypeSupported(type_mask, id) == (type_mask \div Pow2(id)) % 2 = 1

\* memory_types.iter().enumerate().find(..) / .position(..): the first id
\* from `id` on whose bit is set and whose properties contain `properties`.
RECURSIVE FindMemoryType(_, _, _, _)
FindMemoryType(memory_types, type_mask, properties, id) ==
    IF id >= Len(memory_types)
    THEN None
    ELSE IF /\ TypeSupported(type_mask, id)
            /\ properties \subseteq memory_types[id + 1]
         THEN Some(id)
         ELSE FindMemoryType(memory_types, type_mask, properties, id + 1)

\* .expect(..) / .unwrap(): a panic when nothing was found.
Expect(opt) == IF opt.is_some THEN [done |-> TRUE, panic |-> FALSE, val |-> opt.val]
               ELSE [done |-> TRUE, panic |-> TRUE]

UploadTypeForAnyProperties(memory_types, type_mask, properties) ==
    Expect(FindMemoryType(memory_types, type_mask, {}, 0))

UploadTypeFor(memory_types, type_mask, properties) ==
    Expect(FindMemoryType(memory_types, type_mask, properties, 0))

\* TextureBuffer::new: the same search, for DEVICE_LOCAL memory.
TextureBufferMemoryType(memory_types, type_mask) ==
    Expect(FindMemoryType(memory_types, type_mask, {"DEVICE_LOCAL"}, 0))

MemoryTypeTables ==
    UNION { [1 .. n -> SUBSET MemProps] : n \in 1 .. MaxMemTypes }

UploadTypeCalls ==
    { [op |-> "upload_type_for", memory_types |-> t, type_mask |-> m,
       properties |-> pr] :
        t \in MemoryTypeTables, m \in 0 .. (Pow2(MaxMemTypes) - 1),
        pr \in SUBSET MemProps }

TextureMemoryCalls ==
    { [op |-> "texture_buffer_new", memory_types |-> t, type_mask |-> m,
       properties |-> {"DEVICE_LOCAL"}] :
        t \in MemoryTypeTables, m \in 0 .. (Pow2(MaxMemTypes) - 1) }

\* Device::upload_type_for
DeviceUploadTypeFor ==
    /\ call.op = "upload_type_for"
    /\ ~ret.done
    /\ ret' = UploadTypeFor(call.memory_types, call.type_mask, call.properties)
    /\ UNCHANGED << call, frame_vars >>

\* TextureBuffer::new, memory type of the image
TextureBufferNewMemoryType ==
    /\ call.op = "texture_buffer_new"
    /\ ~ret.done
    /\ ret' = TextureBufferMemoryType(call.memory_types, call.type_mask)
    /\ UNCHANGED << call, frame_vars >>

-----------------------------------------------------------------------------
\* Buffer (buffer/mod.rs): a backend buffer, its memory and an element count.

MaxArrayLen == 2
MaxPad == 1
MaxFills == 2

Elems == {0, 1}
Strides == {1, 4}
Arrays == UNION { [1 .. n -> Elems] : n \in 0 .. MaxArrayLen }
Panicked == [done |-> TRUE, panic |-> TRUE]

\* alloc_empty: create_buffer(count * stride), upload_type_for (which may
\* panic), allocate_memory(req.size), bind.  req.size is the backend's
\* requirement: the requested length plus the padding the backend adds.
BufferAllocEmpty(count, stride, pad, memory_types, type_mask, properties) ==
    LET buffer_len == count * stride
        upload_type == UploadTypeFor(memory_types, type_mask, properties)
    IN  IF upload_type.panic THEN Panicked
        ELSE [done |-> TRUE, panic |-> FALSE, count |-> count,
              size |-> buffer_len + pad, mem |-> << >>, filled |-> FALSE,
              fills |-> 0]

\* fill_buffer with count left as it was.
BufferFillBufferKeepsCount(buffer, data, stride, mapped) ==
    IF ~mapped THEN Panicked
    ELSE [buffer EXCEPT !.mem = data, !.filled = TRUE, !.fills = @ + 1]

\* fill_buffer: map 0 .. data.len() * stride of the memory (unwrap), copy the
\* slice, release, count = data.len().  No size check and no reallocation.
BufferFillBuffer(buffer, data, stride, mapped) ==
    IF ~mapped THEN Panicked
    ELSE [buffer EXCEPT !.mem = data, !.count = Len(data), !.filled = TRUE,
                        !.fills = @ + 1]

\* Mapping a range inside the allocation succeeds; a range past its end is
\* outside the backend's contract: the mapping may fail (unwrap panics) or
\* the copy may go through.
MapOutcomes(buffer, buffer_len) ==
    IF buffer_len <= buffer.size THEN {TRUE} ELSE BOOLEAN

\* alloc: alloc_empty(slice.len()) followed by fill_buffer(slice).
BufferAllocSlice(slice, stride, pad, memory_types, type_mask, properties) ==
    LET buffer == BufferAllocEmpty(Len(slice), stride, pad, memory_types,
                                   type_mask, properties)
    IN  IF buffer.panic THEN Panicked
        ELSE BufferFillBuffer(buffer, slice, stride, TRUE)

BufferMemoryTypes == << {"CPU_VISIBLE"} >>

BufferAllocEmptyCalls ==
    { [op |-> "alloc_empty", count |-> n, stride |-> s, pad |-> p,
       type_mask |-> m] :
        n \in 0 .. MaxArrayLen, s \in Strides, p \in 0 .. MaxPad, m \in 0 .. 1 }

BufferAllocCalls ==
    { [op |-> "alloc", slice |-> a, count |-> Len(a), stride |-> s, pad |-> p,
       type_mask |-> m] :
        a \in Arrays, s \in Strides, p \in 0 .. MaxPad, m \in 0 .. 1 }

AllocEmpty ==
    /\ call.op = "alloc_empty"
    /\ ~ret.done
    /\ ret' = BufferAllocEmpty(call.count, call.stride, call.pad,
                               BufferMemoryTypes, call.type_mask,
                               {"CPU_VISIBLE"})
    /\ UNCHANGED << call, frame_vars >>

Alloc ==
    /\ call.op = "alloc"
    /\ ~ret.done
    /\ ret' = BufferAllocSlice(call.slice, call.stride, call.pad,
                               BufferMemoryTypes, call.type_mask,
                               {"CPU_VISIBLE"})
    /\ UNCHANGED << call, frame_vars >>

FillBuffer ==
    /\ call.op \in {"alloc_empty", "alloc"}
    /\ ret.done
    /\ ~ret.panic
    /\ ret.fills < MaxFills
    /\ \E data \in Arrays, stride \in Strides :
         \E mapped \in MapOutcomes(ret, Len(data) * stride) :
           ret' = BufferFillBuffer(ret, data, stride, mapped)
    /\ UNCHANGED << call, frame_vars >>

-----------------------------------------------------------------------------
\* TextureBuffer::upload_texture (buffer/mod.rs): the row pitch.
\* A u32 is held as << high half, low half >> of 16 bits each; a value whose
\* high half has left 0 .. Half - 1 has overflowed the u32.

MaxSmallWidth == 5
MaxAlignment == 8

Half == 2 ^ 16
U(n) == << n \div Half, n % Half >>
Norm(hi, lo) == << hi + (lo \div Half), lo % Half >>
AddM(a, b) == Norm(a[1] + b[1], a[2] + b[2])
Mul4M(a) == Norm(a[1] * 4, a[2] * 4)
Overflows(a) == a[1] >= Half
Wrap32(a) == << a[1] % Half, a[2] >>
LeqM(a, b) == a[1] < b[1] \/ (a[1] = b[1] /\ a[2] <= b[2])
ModM(a, m) == ((a[1] % m) * (Half % m) + a[2]) % m

RECURSIVE BitAnd16(_, _, _)
BitAnd16(x, y, n) ==
    IF n = 0 THEN 0
    ELSE (x % 2) * (y % 2) + 2 * BitAnd16(x \div 2, y \div 2, n - 1)

And32(a, b) == << BitAnd16(a[1], b[1], 16), BitAnd16(a[2], b[2], 16) >>
Not32(a) == << Half - 1 - a[1], Half - 1 - a[2] >>

\* The pitch taken as the packed row length, with no rounding.
RowPitchPacked(width, alignment, overflow_checks) ==
    [done |-> TRUE, panic |-> FALSE, row_pitch |-> Wrap32(Mul4M(U(width)))]

\* row_alignment_mask = alignment as u32 - 1;
\* row_pitch = (width * 4 + row_alignment_mask) & !row_alignment_mask, in u32:
\* an overflowing product or sum panics where overflow checks are compiled in
\* and wraps where they are not.
RowPitch(width, alignment, overflow_checks) ==
    LET row_alignment_mask == U(alignment - 1)
        product == Mul4M(U(width))
        sum == AddM(Wrap32(product), row_alignment_mask)
    IN  IF overflow_checks /\ (Overflows(product) \/ Overflows(sum))
        THEN Panicked
        ELSE [done |-> TRUE, panic |-> FALSE,
              row_pitch |-> And32(Wrap32(sum), Not32(row_alignment_mask))]

WideWidths == {2 ^ 30 - 1, 2 ^ 30, 2 ^ 30 + 1}
Widths == 0 .. MaxSmallWidth \cup WideWidths
Alignments == 1 .. MaxAlignment \cup {256}

RowPitchCalls ==
    { [op |-> "row_pitch", width |-> w, alignment |-> a,
       overflow_checks |-> c] :
        w \in Widths, a \in Alignments, c \in BOOLEAN }

UploadTextureRowPitch ==
    /\ call.op = "row_pitch"
    /\ ~ret.done
    /\ ret' = RowPitch(call.width, call.alignment, call.overflow_checks)
    /\ UNCHANGED << call, frame_vars >>

-----------------------------------------------------------------------------
\* TextureBuffer::upload_texture (buffer/mod.rs): the staging buffer and the
\* description of the buffer-to-image copy.

MaxTexWidth == 2
MaxTexHeight == 2
MaxSeed == 2

ImageStride == 4
Unwritten == 0 - 1

\* A packed pixel buffer of n bytes whose bytes differ from place to place.
Pixels(seed, n) == [i \in 1 .. n |-> (i * seed + seed) % 256]

ToInt(a) == a[1] * Half + a[2]

\* Rows laid out back to back, as in the source buffer.
StagingDestBasePacked(y, row_pitch, width) == y * width * ImageStride

\* dest_base = y * row_pitch
StagingDestBase(y, row_pitch, width) == y * row_pitch

\* for y in 0 .. height: copy row y of the texture to dest_base.  Slicing the
\* texture data past its end panics, and so does indexing the mapped slice
\* past its end.
RECURSIVE WriteRows(_, _, _, _, _, _)
WriteRows(staging, data, y, width, height, row_pitch) ==
    IF y >= height THEN [panic |-> FALSE, mem |-> staging]
    ELSE IF (y + 1) * width * ImageStride > Len(data) THEN [panic |-> TRUE]
    ELSE LET row == SubSeq(data, y * width * ImageStride + 1,
                           (y + 1) * width * ImageStride)
             dest_base == StagingDestBase(y, row_pitch, width)
         IN  IF dest_base + Len(row) > Len(staging) THEN [panic |-> TRUE]
             ELSE WriteRows(
                    [k \in 1 .. Len(staging) |->
                        IF k > dest_base /\ k <= dest_base + Len(row)
                        THEN row[k - dest_base] ELSE staging[k]],
                    data, y + 1, width, height, row_pitch)

\* buffer_width: row_pitch / image_stride, buffer_height: height, and the
\* image extent width x height.
CopyRegion(row_pitch, width, height) ==
    [buffer_offset |-> 0, buffer_width |-> row_pitch \div ImageStride,
     buffer_height |-> height, image_extent |-> << width, height >>]

UploadTextureStaging(data, width, height, alignment, overflow_checks) ==
    LET pitch == RowPitch(width, alignment, overflow_checks)
    IN  IF pitch.panic THEN Panicked
        ELSE LET row_pitch == ToInt(pitch.row_pitch)
                 upload_size == height * row_pitch
                 upload_buffer ==
                     BufferAllocEmpty(upload_size, 1, 0, BufferMemoryTypes, 1,
                                      {"CPU_VISIBLE"})
                 written ==
                     WriteRows([k \in 1 .. upload_size |-> Unwritten], data, 0,
                               width, height, row_pitch)
             IN  IF upload_buffer.panic \/ written.panic THEN Panicked
                 ELSE [done |-> TRUE, panic |-> FALSE, row_pitch |-> row_pitch,
                       staging |-> written.mem,
                       region |-> CopyRegion(row_pitch, width, height)]

StagingCalls ==
    { [op |-> "staging", width |-> w, height |-> h, alignment |-> a,
       overflow_checks |-> c, data |-> Pixels(s, w * h * ImageStride)] :
        w \in 0 .. MaxTexWidth, h \in 0 .. MaxTexHeight,
        a \in 1 .. MaxAlignment, c \in BOOLEAN, s \in 1 .. MaxSeed }

UploadTextureStage ==
    /\ call.op = "staging"
    /\ ~ret.done
    /\ ret' = UploadTextureStaging(call.data, call.width, call.height,
                                   call.alignment, call.overflow_checks)
    /\ UNCHANGED << call, frame_vars >>

-----------------------------------------------------------------------------
\* TextureBuffer::upload_texture (buffer/mod.rs): recording, submission and
\* the wait on the fence.

Command(kind, src, dst) == [kind |-> kind, src |-> src, dst |-> dst]

\* The one-shot command buffer as upload_texture records it.
UploadCommands ==
    << Command("barrier", "Undefined", "TransferDstOptimal"),
       Command("copy", "upload_buffer", "TransferDstOptimal"),
       Command("barrier", "TransferDstOptimal", "ShaderReadOnlyOptimal") >>

\* The queue executing a command buffer on an image: a barrier moves the
\* image from its old layout to the new one, a copy writes an image that is in
\* the layout the copy names.
RECURSIVE Execute(_, _, _)
Execute(cmds, i, image) ==
    IF i > Len(cmds) THEN image
    ELSE LET c == cmds[i]
         IN  Execute(cmds, i + 1,
               IF c.kind = "barrier"
               THEN [image EXCEPT
                       !.layout = c.dst,
                       !.ok = @ /\ c.src \in {"Undefined", image.layout}]
               ELSE [image EXCEPT
                       !.copied = TRUE,
                       !.ok = @ /\ c.dst = image.layout])

\* A wait that returns at once.
WaitForFenceNoWait(fence) == TRUE

\* wait_for_fence(&texture_fence, !0) returns once the fence is signalled.
WaitForFence(fence) == fence

UploadTextureCalls ==
    { [c EXCEPT !.op = "upload_texture"] : c \in StagingCalls }

\* Up to the submission: create_fence(false), the staging buffer, the command
\* pool and the one-shot command buffer with its three commands, finish, and
\* submit_nosemaphores with the fence.
UploadTextureSubmit ==
    /\ call.op = "upload_texture"
    /\ ret = NotRun
    /\ LET staged == UploadTextureStaging(call.data, call.width, call.height,
                                          call.alignment, call.overflow_checks)
       IN  ret' = IF staged.panic THEN Panicked
                  ELSE [done |-> FALSE, panic |-> FALSE, pc |-> "wait",
                        texture_fence |-> FALSE, one_time_submit |-> TRUE,
                        cmd_buffer |-> UploadCommands, submitted |-> TRUE,
                        region |-> staged.region,
                        image |-> [layout |-> "Undefined", copied |-> FALSE,
                                   ok |-> TRUE]]
    /\ UNCHANGED << call, frame_vars >>

\* The queue runs the submitted command buffer and signals the fence.
GpuExecuteUpload ==
    /\ call.op = "upload_texture"
    /\ ~ret.done
    /\ ret # NotRun
    /\ ret.submitted
    /\ ~ret.texture_fence
    /\ ret' = [ret EXCEPT !.image = Execute(ret.cmd_buffer, 1, ret.image),
                          !.texture_fence = TRUE]
    /\ UNCHANGED << call, frame_vars >>

\* wait_for_fence lets the call return.
UploadTextureReturn ==
    /\ call.op = "upload_texture"
    /\ ~ret.done
    /\ ret # NotRun
    /\ ret.pc = "wait"
    /\ WaitForFence(ret.texture_fence)
    /\ ret' = [ret EXCEPT !.done = TRUE, !.pc = "returned"]
    /\ UNCHANGED << call, frame_vars >>

-----------------------------------------------------------------------------
\* Descriptor layouts, pools and sets (pipeline/mod.rs).

MaxBindings == 2
MaxBindingIndex == 2

DescriptorTypes == {"UniformBuffer", "SampledImage"}
PoolCounts == {1, 3}

DescriptorBinding(ty, binding) == [ty |-> ty, binding |-> binding]

\* DescriptorSetLayout::create: one DescriptorBinding per input, in the order
\* of the inputs, carrying the input's binding type and binding index.
RECURSIVE DescriptorSetLayoutCreate(_)
DescriptorSetLayoutCreate(inputs) ==
    IF inputs = << >> THEN << >>
    ELSE << DescriptorBinding(Head(inputs).ty, Head(inputs).binding) >>
         \o DescriptorSetLayoutCreate(Tail(inputs))

\* One range per binding, each of a single descriptor.
RECURSIVE LayoutRangesSingle(_, _)
LayoutRangesSingle(bindings, count) ==
    IF bindings = << >> THEN << >>
    ELSE << [ty |-> Head(bindings).ty, count |-> 1] >>
         \o LayoutRangesSingle(Tail(bindings), count)

\* The inner loop of DescriptorPool::new: for each binding of the layout a
\* range of the binding's type and of the count paired with the layout.
RECURSIVE LayoutRanges(_, _)
LayoutRanges(bindings, count) ==
    IF bindings = << >> THEN << >>
    ELSE << [ty |-> Head(bindings).ty, count |-> count] >>
         \o LayoutRanges(Tail(bindings), count)

\* The outer loop of DescriptorPool::new and create_descriptor_pool.
RECURSIVE DescriptorPoolRanges(_)
DescriptorPoolRanges(input_layouts) ==
    IF input_layouts = << >> THEN << >>
    ELSE LayoutRanges(Head(input_layouts).layout, Head(input_layouts).count)
         \o DescriptorPoolRanges(Tail(input_layouts))

DescriptorPoolNew(max_sets, input_layouts) ==
    [done |-> TRUE, panic |-> FALSE, max_sets |-> max_sets,
     desc_ranges |-> DescriptorPoolRanges(input_layouts)]

\* Layouts whose i-th input sits at shader binding MaxBindingIndex + 1 - i.
TypeLists == UNION { [1 .. n -> DescriptorTypes] : n \in 0 .. MaxBindings }
PoolLayouts ==
    { DescriptorSetLayoutCreate(
        [i \in 1 .. Len(tys) |->
            [ty |-> tys[i], binding |-> MaxBindingIndex + 1 - i]]) :
        tys \in TypeLists }
PoolInputs == { [layout |-> l, count |-> c] : l \in PoolLayouts, c \in PoolCounts }

PoolInputLists ==
    { << >> } \cup { << a >> : a \in PoolInputs }
              \cup { << a, b >> : a \in PoolInputs, b \in PoolInputs }

DescriptorPoolCalls ==
    { [op |-> "descriptor_pool_new", max_sets |-> Len(ls), input_layouts |-> ls] :
        ls \in PoolInputLists }

DescriptorPoolCreate ==
    /\ call.op = "descriptor_pool_new"
    /\ ~ret.done
    /\ ret' = DescriptorPoolNew(call.max_sets, call.input_layouts)
    /\ UNCHANGED << call, frame_vars >>

-----------------------------------------------------------------------------
\* DescriptorSet (pipeline/mod.rs).

MaxWrites == 2

\* The layout's binding indices, last entry first.
RECURSIVE DescriptorSetBindingsReversed(_)
DescriptorSetBindingsReversed(layout) ==
    IF layout = << >> THEN << >>
    ELSE DescriptorSetBindingsReversed(Tail(layout)) \o << Head(layout).binding >>

\* for binding in input_layout.bindings.iter() { bindings.push(binding.binding) }
RECURSIVE DescriptorSetBindings(_)
DescriptorSetBindings(layout) ==
    IF layout = << >> THEN << >>
    ELSE << Head(layout).binding >> \o DescriptorSetBindings(Tail(layout))

\* DescriptorSet::new: the binding list, then allocate_set(..).log_expect(..).
DescriptorSetNew(layout, alloc_ok) ==
    IF ~alloc_ok THEN Panicked
    ELSE [done |-> TRUE, panic |-> FALSE,
          bindings |-> DescriptorSetBindings(layout), create_writes |-> << >>,
          last_write |-> None, writes |-> 0]

\* The loop of DescriptorSet::create: for every input that has a descriptor,
\* a write to input_layout.bindings[input.1].binding; indexing past the end of
\* the layout panics.
RECURSIVE CreateWrites(_, _)
CreateWrites(inputs, bindings) ==
    IF inputs = << >> THEN [panic |-> FALSE, writes |-> << >>]
    ELSE LET input == Head(inputs)
             rest == CreateWrites(Tail(inputs), bindings)
         IN  IF ~input.has_descriptor THEN rest
             ELSE IF input.index >= Len(bindings) \/ rest.panic
                  THEN [panic |-> TRUE]
                  ELSE [panic |-> FALSE,
                        writes |-> << [index |-> input.index,
                                       binding |-> bindings[input.index + 1]] >>
                                   \o rest.writes]

DescriptorSetCreate(inputs, layout, alloc_ok) ==
    LET set == DescriptorSetNew(layout, alloc_ok)
    IN  IF set.panic THEN Panicked
        ELSE LET w == CreateWrites(inputs, set.bindings)
             IN  IF w.panic THEN Panicked
                 ELSE [set EXCEPT !.create_writes = w.writes]

\* write_descriptor and write_input: one write to self.bindings[index].
DescriptorSetWrite(set, index, via) ==
    IF index >= Len(set.bindings) THEN Panicked
    ELSE [set EXCEPT
            !.last_write = Some([index |-> index, via |-> via,
                                 binding |-> set.bindings[index + 1]]),
            !.writes = @ + 1]

BindingType(binding) ==
    IF binding % 2 = 0 THEN "UniformBuffer" ELSE "SampledImage"

SetLayouts ==
    { DescriptorSetLayoutCreate(
        [i \in 1 .. Len(bs) |-> [ty |-> BindingType(bs[i]), binding |-> bs[i]]]) :
        bs \in UNION { [1 .. n -> 0 .. MaxBindingIndex] : n \in 0 .. MaxBindings } }

SetInputs ==
    { [has_descriptor |-> h, index |-> i] :
        h \in BOOLEAN, i \in 0 .. MaxBindings }
SetInputLists ==
    { << >> } \cup { << a >> : a \in SetInputs }
              \cup { << a, b >> : a \in SetInputs, b \in SetInputs }

DescriptorSetNewCalls ==
    { [op |-> "descriptor_set_new", layout |-> l, alloc_ok |-> ok] :
        l \in SetLayouts, ok \in BOOLEAN }

DescriptorSetCreateCalls ==
    { [op |-> "descriptor_set_create", layout |-> l, alloc_ok |-> ok,
       inputs |-> ins] :
        l \in SetLayouts, ok \in BOOLEAN, ins \in SetInputLists }

DescriptorSetNewCall ==
    /\ call.op = "descriptor_set_new"
    /\ ~ret.done
    /\ ret' = DescriptorSetNew(call.layout, call.alloc_ok)
    /\ UNCHANGED << call, frame_vars >>

DescriptorSetCreateCall ==
    /\ call.op = "descriptor_set_create"
    /\ ~ret.done
    /\ ret' = DescriptorSetCreate(call.inputs, call.layout, call.alloc_ok)
    /\ UNCHANGED << call, frame_vars >>

WriteDescriptor ==
    /\ call.op \in {"descriptor_set_new", "descriptor_set_create"}
    /\ ret.done
    /\ ~ret.panic
    /\ ret.writes < MaxWrites
    /\ \E index \in 0 .. MaxBindings :
         ret' = DescriptorSetWrite(ret, index, "write_descriptor")
    /\ UNCHANGED << call, frame_vars >>

WriteInput ==
    /\ call.op \in {"descriptor_set_new", "descriptor_set_create"}
    /\ ret.done
    /\ ~ret.panic
    /\ ret.writes < MaxWrites
    /\ \E index \in 0 .. MaxBindings :
         ret' = DescriptorSetWrite(ret, index, "write_input")
    /\ UNCHANGED << call, frame_vars >>

-----------------------------------------------------------------------------
\* Material buffers (spatial/material.rs).

TextureSlots == << "albedo", "normal", "metallic", "roughness" >>

\* The layout the mesh pipeline shares with the material buffers: the data
\* buffer, the sampler and the four textures, as write_descriptor_input
\* addresses them.
MaterialLayout ==
    DescriptorSetLayoutCreate(
        [i \in 1 .. 6 |->
            [ty |-> IF i = 1 THEN "UniformBuffer"
                    ELSE IF i = 2 THEN "Sampler" ELSE "SampledImage",
             binding |-> i - 1]])

\* The shared layout as create_desc_set reads it: None until registered.
MaterialDescriptorLayouts == {None, Some(MaterialLayout)}

NotInitialised ==
    "Failed to create material buffer - the mesh render pipeline has not yet been initialised."

\* DescriptorSet::new as create_desc_set calls it: a Result, an error value
\* where the allocation fails.
MaterialDescriptorSetNew(layout, alloc_ok) ==
    IF alloc_ok THEN [is_err |-> FALSE, set |-> DescriptorSetNew(layout, TRUE)]
    ELSE [is_err |-> TRUE, err |-> "Failed to create descriptor set."]

\* MaterialBuffer::create_desc_set: with the layout registered a pool of one
\* set and a set from it; without it the error value.
CreateDescSet(layout, alloc_ok) ==
    IF layout.is_some
    THEN LET pool == DescriptorPoolNew(1, << [layout |-> layout.val, count |-> 1] >>)
             made == MaterialDescriptorSetNew(layout.val, alloc_ok)
         IN  IF made.is_err
             THEN [is_err |-> TRUE, err |-> made.err, pools |-> 1, sets |-> 0]
             ELSE [is_err |-> FALSE, set |-> made.set, pools |-> 1, sets |-> 1]
    ELSE [is_err |-> TRUE, err |-> NotInitialised, pools |-> 0, sets |-> 0]

\* write_descriptor_input: the data buffer at 0, the sampler at 1, and each
\* texture that is present at its index 2 .. 5.
RECURSIVE WriteDescriptorInput(_, _, _)
WriteDescriptorInput(set, textures, i) ==
    IF i > 5 THEN set
    ELSE IF i >= 2 /\ TextureSlots[i - 1] \notin textures
         THEN WriteDescriptorInput(set, textures, i + 1)
         ELSE LET w == DescriptorSetWrite(set, i, "write_input")
              IN  IF w.panic THEN w
                  ELSE WriteDescriptorInput(
                         [w EXCEPT !.create_writes = @ \o << w.last_write.val >>],
                         textures, i + 1)

\* MaterialBuffer::new: create_desc_set(device)?, then write_descriptor_input.
MaterialBufferNew(textures, layout, alloc_ok) ==
    LET made == CreateDescSet(layout, alloc_ok)
    IN  IF made.is_err
        THEN [done |-> TRUE, panic |-> FALSE, is_err |-> TRUE, err |-> made.err,
              pools |-> made.pools, sets |-> made.sets]
        ELSE LET written == WriteDescriptorInput(made.set, textures, 0)
             IN  IF written.panic THEN Panicked
                 ELSE [done |-> TRUE, panic |-> FALSE, is_err |-> FALSE,
                       descriptor_set |-> written, pools |-> made.pools,
                       sets |-> made.sets]

\* Material::create_buffer: the texture buffers and the data buffer, then
\* MaterialBuffer::new(..).expect("Failed to create material buffer!").
MaterialCreateBuffer(textures, layout, alloc_ok) ==
    LET made == MaterialBufferNew(textures, layout, alloc_ok)
    IN  IF made.panic \/ made.is_err THEN Panicked ELSE made

ResultPaths == {"MaterialBuffer::new", "MaterialBuffer::empty",
                "MaterialBuffer::basic_albedo", "MaterialBuffer::with_color"}
ExpectPaths == {"Material::create_buffer", "MaterialComponent::new",
                "MaterialComponent::write_buffers"}

\* The textures each path hands on.
PathTextures(path) ==
    IF path \in {"MaterialBuffer::empty", "MaterialBuffer::with_color"}
    THEN { {} }
    ELSE IF path = "MaterialBuffer::basic_albedo" THEN { {"albedo"} }
    ELSE SUBSET {"albedo", "normal", "metallic", "roughness"}

MaterialCalls ==
    UNION { { [op |-> "material", path |-> p, textures |-> t, layout |-> l,
               alloc_ok |-> ok] :
                t \in PathTextures(p), l \in MaterialDescriptorLayouts,
                ok \in BOOLEAN } :
            p \in ResultPaths \cup ExpectPaths }

MaterialBufferCreate ==
    /\ call.op = "material"
    /\ call.path \in ResultPaths
    /\ ~ret.done
    /\ ret' = MaterialBufferNew(call.textures, call.layout, call.alloc_ok)
    /\ UNCHANGED << call, frame_vars >>

MaterialCreateBufferCall ==
    /\ call.op = "material"
    /\ call.path \in ExpectPaths
    /\ ~ret.done
    /\ ret' = MaterialCreateBuffer(call.textures, call.layout, call.alloc_ok)
    /\ UNCHANGED << call, frame_vars >>

-----------------------------------------------------------------------------
\* Device::load_shader_raw (core/mod.rs).

ShaderErrors == {"CompilationFailed", "MissingEntryPoint", "OutOfMemory"}

\* What create_shader_module can hand back for the bytes.
ShaderModuleResults(bytes) ==
    { [ok |-> TRUE, module |-> bytes] }
        \cup { [ok |-> FALSE, error |-> e] : e \in ShaderErrors }

\* The backend's result unwrapped.
LoadShaderRawUnwrap(result) ==
    IF result.ok
    THEN [done |-> TRUE, panic |-> FALSE, is_err |-> FALSE, val |-> result.module]
    ELSE Panicked

\* if let Ok(module) = create_shader_module(bytes) { Ok(module) }
\* else { Err("Failed to create shader module.") }
LoadShaderRaw(result) ==
    IF result.ok
    THEN [done |-> TRUE, panic |-> FALSE, is_err |-> FALSE, val |-> result.module]
    ELSE [done |-> TRUE, panic |-> FALSE, is_err |-> TRUE,
          err |-> "Failed to create shader module."]

LoadShaderCalls ==
    UNION { { [op |-> "load_shader_raw", bytes |-> b, backend |-> r] :
                r \in ShaderModuleResults(b) } : b \in Arrays }

DeviceLoadShaderRaw ==
    /\ call.op = "load_shader_raw"
    /\ ~ret.done
    /\ ret' = LoadShaderRaw(call.backend)
    /\ UNCHANGED << call, frame_vars >>

-----------------------------------------------------------------------------
\* Device::create (core/mod.rs): the colour format.

SurfaceFormats == {"Rgba8Srgb", "Bgra8Srgb", "Rgba8Unorm", "Bgra8Unorm"}

\* format.base_format().1 == ChannelType::Srgb
IsSrgb(format) == format \in {"Rgba8Srgb", "Bgra8Srgb"}

\* choices.into_iter().find(..)
RECURSIVE FindSrgb(_)
FindSrgb(choices) ==
    IF choices = << >> THEN None
    ELSE IF IsSrgb(Head(choices)) THEN Some(Head(choices))
         ELSE FindSrgb(Tail(choices))

\* match formats { Some(choices) => choices.into_iter().find(..).unwrap(),
\*                 None => Rgba8Srgb }
ColorFormat(formats) ==
    IF formats.is_some THEN Expect(FindSrgb(formats.val))
    ELSE [done |-> TRUE, panic |-> FALSE, val |-> "Rgba8Srgb"]

FormatLists ==
    { << >> } \cup { << a >> : a \in SurfaceFormats }
              \cup { << a, b >> : a \in SurfaceFormats, b \in SurfaceFormats }

ColorFormatCalls ==
    { [op |-> "color_format", formats |-> f] :
        f \in {None} \cup { Some(l) : l \in FormatLists } }

DeviceCreateColorFormat ==
    /\ call.op = "color_format"
    /\ ~ret.done
    /\ ret' = ColorFormat(call.formats)
    /\ UNCHANGED << call, frame_vars >>

-----------------------------------------------------------------------------
\* Surface::create and Surface::rebuild (render/mod.rs): the viewport.

\* Extents a surface reports (u32 each way), on both sides of the i16 range.
ExtentSizes == {1, 600, 800, 2 ^ 15 - 1, 2 ^ 15, 2 ^ 16 + 800}
Extents == { [width |-> w, height |-> h] : w \in ExtentSizes, h \in ExtentSizes }
CachedExtents == { [width |-> 800, height |-> 600], [width |-> 1, height |-> 1] }

\* n as i16: the low 16 bits, read as two's complement.
AsI16(n) ==
    LET low == n % (2 ^ 16)
    IN  IF low >= 2 ^ 15 THEN low - 2 ^ 16 ELSE low

\* Viewport { rect: Rect { x: 0, y: 0, w: extent.width as i16,
\*                         h: extent.height as i16 }, depth: 0.0 .. 1.0 }
Viewport(extent) ==
    [x |-> 0, y |-> 0, w |-> AsI16(extent.width), h |-> AsI16(extent.height)]

\* Surface::create: the extent of the capabilities cached in the device.
SurfaceCreateViewport(cached, queried) == Viewport(cached)

\* Surface::rebuild: the extent of the capabilities queried anew from the
\* window surface.
SurfaceRebuildViewport(cached, queried) == Viewport(queried)

ViewportCalls ==
    { [op |-> "rebuild", cached |-> c, queried |-> q] :
        c \in CachedExtents, q \in Extents }

SurfaceRebuildCall ==
    /\ call.op = "rebuild"
    /\ ret = NotRun
    /\ ret' = [done |-> FALSE, panic |-> FALSE, pc |-> "created",
               viewport |-> SurfaceCreateViewport(call.cached, call.queried)]
    /\ UNCHANGED << call, frame_vars >>

SurfaceRebuildResized ==
    /\ call.op = "rebuild"
    /\ ret # NotRun
    /\ ~ret.done
    /\ ret' = [done |-> TRUE, panic |-> FALSE, pc |-> "rebuilt",
               viewport |-> SurfaceRebuildViewport(call.cached, call.queried)]
    /\ UNCHANGED << call, frame_vars >>

-----------------------------------------------------------------------------
\* MeshRenderPipeline::create: the vertex buffer and attribute descriptions.

AttributeDesc(location, format, offset) ==
    [location |-> location, binding |-> 0, format |-> format, offset |-> offset]

\* Bytes of an element of each format.
FormatSize(format) ==
    CASE format = "Rgb32Float" -> 12
      [] format = "Rg32Float" -> 8
      [] format = "Rgba32Int" -> 16
      [] format = "Rgba32Float" -> 16
      [] format = "R32Int" -> 4

\* ModelVertex: pos, normal: Vector3f; uv: Vector2f; bone_ids: Vector4i;
\* bone_weights: Vector4f, four bytes a component.
ModelVertexFields == << 3, 3, 2, 4, 4 >>
RECURSIVE SizeOfFields(_)
SizeOfFields(fields) ==
    IF fields = << >> THEN 0 ELSE 4 * Head(fields) + SizeOfFields(Tail(fields))
SizeOfModelVertex == SizeOfFields(ModelVertexFields)

\* The attributes pushed by spatial/mesh_pipeline.rs.
MeshPipelineAttributes ==
    << AttributeDesc(0, "Rgb32Float", 0),
       AttributeDesc(1, "Rgb32Float", 12),
       AttributeDesc(2, "Rg32Float", 24),
       AttributeDesc(3, "Rgba32Int", 32),
       AttributeDesc(4, "Rgba32Float", 48) >>

\* The attributes pushed by spatial/pipe/mesh.rs, the module spatial/mod.rs
\* declares.
PipeMeshAttributes ==
    << AttributeDesc(0, "Rgb32Float", 0),
       AttributeDesc(1, "Rgb32Float", 12),
       AttributeDesc(2, "Rg32Float", 24),
       AttributeDesc(3, "Rgba32Int", 32),
       AttributeDesc(4, "Rgba32Float", 48),
       AttributeDesc(5, "R32Int", 64) >>

MeshRenderPipelineCreate(file) ==
    [done |-> TRUE, panic |-> FALSE, stride |-> SizeOfModelVertex,
     attributes |-> IF file = "spatial/pipe/mesh.rs" THEN PipeMeshAttributes
                    ELSE MeshPipelineAttributes]

MeshPipelineCalls ==
    { [op |-> "mesh_pipeline", file |-> f] :
        f \in {"spatial/pipe/mesh.rs", "spatial/mesh_pipeline.rs"} }

MeshRenderPipelineCreateCall ==
    /\ call.op = "mesh_pipeline"
    /\ ~ret.done
    /\ ret' = MeshRenderPipelineCreate(call.file)
    /\ UNCHANGED << call, frame_vars >>

-----------------------------------------------------------------------------
\* Handle and HandledData (types/mod.rs).  index_ptr[c] is the usize behind
\* the c-th Rc made by push, shared by the stored object's handle and the
\* handle push gave out.

MaxPushes == 3

\* std::usize::MAX: above every length a Vec can have.
UsizeMax == 2 ^ 30

HandledDataNew ==
    [done |-> TRUE, panic |-> FALSE, data |-> << >>, index_ptr |-> << >>]

\* push: HandledObject::new(value, data.len()), the handle cloned and given
\* out, the object appended.
HandledDataPush(hd, value) ==
    [hd EXCEPT
        !.data = Append(@, [value |-> value, handle |-> Len(hd.index_ptr) + 1]),
        !.index_ptr = Append(@, Len(hd.data))]

\* remove without the loop that rewrites the indices of the later objects.
HandledDataRemoveNoReindex(hd, handle) ==
    LET index == hd.index_ptr[handle]
    IN  IF index >= Len(hd.data) THEN Panicked
        ELSE [hd EXCEPT
                !.data = SubSeq(hd.data, 1, index)
                           \o SubSeq(hd.data, index + 2, Len(hd.data)),
                !.index_ptr = [@ EXCEPT ![hd.data[index + 1].handle] = UsizeMax]]

\* remove: Vec::remove(index) (which panics past the end), invalidate the
\* removed object's handle, then set_index(i) on every object from index on.
HandledDataRemove(hd, handle) ==
    LET index == hd.index_ptr[handle]
    IN  IF index >= Len(hd.data) THEN Panicked
        ELSE LET result == hd.data[index + 1]
                 rest == SubSeq(hd.data, 1, index)
                           \o SubSeq(hd.data, index + 2, Len(hd.data))
             IN  [hd EXCEPT
                    !.data = rest,
                    !.index_ptr =
                        [c \in 1 .. Len(hd.index_ptr) |->
                            IF c = result.handle THEN UsizeMax
                            ELSE IF \E i \in index + 1 .. Len(rest) :
                                      rest[i].handle = c
                                 THEN (CHOOSE i \in index + 1 .. Len(rest) :
                                         rest[i].handle = c) - 1
                                 ELSE hd.index_ptr[c]]]

\* Handle::is_valid
HandleIsValid(hd, handle) == hd.index_ptr[handle] # UsizeMax

\* HandledData::get: self.data.get(handle.get_index())
HandledDataGet(hd, handle) ==
    LET index == hd.index_ptr[handle]
    IN  IF index < Len(hd.data) THEN Some(hd.data[index + 1].value) ELSE None

\* The value the k-th push stores.
PushedValue(k) == 10 * k

HandledDataCalls == { [op |-> "handled_data"] }

HandledDataCreate ==
    /\ call.op = "handled_data"
    /\ ~ret.done
    /\ ret' = HandledDataNew
    /\ UNCHANGED << call, frame_vars >>

Push ==
    /\ call.op = "handled_data"
    /\ ret.done
    /\ ~ret.panic
    /\ Len(ret.index_ptr) < MaxPushes
    /\ ret' = HandledDataPush(ret, PushedValue(Len(ret.index_ptr) + 1))
    /\ UNCHANGED << call, frame_vars >>

Remove ==
    /\ call.op = "handled_data"
    /\ ret.done
    /\ ~ret.panic
    /\ \E handle \in 1 .. Len(ret.index_ptr) :
         ret' = HandledDataRemove(ret, handle)
    /\ UNCHANGED << call, frame_vars >>

-----------------------------------------------------------------------------
\* Texture (texture/mod.rs) and TextureBuffer::create / empty (buffer/mod.rs).

\* Texture::new(): data vec![0, 0, 0, 0], dimensions (2, 2).
TextureNew == [data |-> << 0, 0, 0, 0 >>, width |-> 2, height |-> 2]

\* Texture::from_bytes(data, dimensions): both stored as given.
TextureFromBytes(data, width, height) ==
    [data |-> data, width |-> width, height |-> height]

\* from_file and from_image_bytes: the decoded image's bytes and dimensions.
TextureFromImage(seed, width, height) ==
    TextureFromBytes(Pixels(seed, width * height * ImageStride), width, height)

ByteLengths == { n * ImageStride : n \in 0 .. MaxTexWidth * MaxTexHeight }

Textures ==
    {TextureNew}
        \cup { TextureFromImage(1, w, h) :
                 w \in 0 .. MaxTexWidth, h \in 0 .. MaxTexHeight }
        \cup { TextureFromBytes(Pixels(1, n), w, h) :
                 n \in ByteLengths, w \in 0 .. MaxTexWidth,
                 h \in 0 .. MaxTexHeight }

TextureBufferCalls ==
    { [op |-> "texture_buffer_create", texture |-> t, alignment |-> a,
       via |-> "create"] :
        t \in Textures, a \in 1 .. MaxAlignment }
        \cup { [op |-> "texture_buffer_create", texture |-> TextureNew,
                alignment |-> a, via |-> "empty"] :
                 a \in 1 .. MaxAlignment }

\* TextureBuffer::create(texture): the image, its memory and view, then
\* upload_texture(texture).
TextureBufferCreate ==
    /\ call.op = "texture_buffer_create"
    /\ call.via = "create"
    /\ ~ret.done
    /\ ret' = UploadTextureStaging(call.texture.data, call.texture.width,
                                   call.texture.height, call.alignment, TRUE)
    /\ UNCHANGED << call, frame_vars >>

\* TextureBuffer::empty: create(&Texture::new()).
TextureBufferEmpty ==
    /\ call.op = "texture_buffer_create"
    /\ call.via = "empty"
    /\ ~ret.done
    /\ ret' = UploadTextureStaging(TextureNew.data, TextureNew.width,
                                   TextureNew.height, call.alignment, TRUE)
    /\ UNCHANGED << call, frame_vars >>

-----------------------------------------------------------------------------
\* LightsList (spatial/light.rs).

MAX_LIGHTS == 20
MaxAdds == 22
MaxRemoves == 2
MaxLowIndex == 2

\* LightData::default(); the k-th light added is the value k.
DefaultLight == 0

LightsListNew ==
    [done |-> TRUE, panic |-> FALSE, count |-> 0,
     lights |-> [i \in 1 .. MAX_LIGHTS |-> DefaultLight], added |-> 0,
     removes |-> 0, removed |-> None]

\* How a panicking call is recorded: the call and the count it met.
LightsPanicked(index, count) ==
    [done |-> TRUE, panic |-> TRUE, index |-> index, count |-> count]

\* add_light: the light is stored while count < MAX_LIGHTS; count is
\* incremented in either case.
LightsListAddLight(list, data) ==
    [list EXCEPT
        !.lights = IF list.count < MAX_LIGHTS
                   THEN [@ EXCEPT ![list.count + 1] = data] ELSE @,
        !.count = @ + 1,
        !.added = @ + 1]

\* lights.copy_within(src_start .. src_end, dest)
CopyWithin(lights, src_start, src_end, dest) ==
    [i \in 1 .. Len(lights) |->
        IF i - 1 >= dest /\ i - 1 < dest + (src_end - src_start)
        THEN lights[i - dest + src_start] ELSE lights[i]]

\* remove_light as written: assert!(index >= count), lights[index], the shift
\* when index < count - 1 (count - 1 in usize), lights[count] = default,
\* count -= 1.  With count = 0 the subtraction overflows: a panic with overflow
\* checks, and without them a range up to usize::MAX, which copy_within
\* rejects with a panic.
LightsListRemoveLight(list, index) ==
    IF ~(index >= list.count) THEN LightsPanicked(index, list.count)
    ELSE IF index >= MAX_LIGHTS THEN LightsPanicked(index, list.count)
    ELSE IF list.count = 0 THEN LightsPanicked(index, list.count)
    ELSE LET data == list.lights[index + 1]
             shifted == IF index < list.count - 1
                        THEN CopyWithin(list.lights, index + 1, list.count - 1,
                                        index)
                        ELSE list.lights
         IN  IF list.count >= MAX_LIGHTS THEN LightsPanicked(index, list.count)
             ELSE [list EXCEPT
                     !.lights = [shifted EXCEPT ![list.count + 1] = DefaultLight],
                     !.count = @ - 1,
                     !.removes = @ + 1,
                     !.removed = Some([index |-> index, data |-> data])]

\* The indices remove_light is called with: the first slots, the last slot
\* and the one past it.
RemoveIndices == (0 .. MaxLowIndex) \cup {MAX_LIGHTS - 1, MAX_LIGHTS}

LightsListCalls == { [op |-> "lights_list"] }

LightsListCreate ==
    /\ call.op = "lights_list"
    /\ ~ret.done
    /\ ret' = LightsListNew
    /\ UNCHANGED << call, frame_vars >>

AddLight ==
    /\ call.op = "lights_list"
    /\ ret.done
    /\ ~ret.panic
    /\ ret.added < MaxAdds
    /\ ret' = LightsListAddLight(ret, ret.added + 1)
    /\ UNCHANGED << call, frame_vars >>

RemoveLight ==
    /\ call.op = "lights_list"
    /\ ret.done
    /\ ~ret.panic
    /\ ret.removes < MaxRemoves
    /\ \E index \in RemoveIndices :
         ret' = LightsListRemoveLight(ret, index)
    /\ UNCHANGED << call, frame_vars >>

-----------------------------------------------------------------------------
\* MovementState and MovementStateHandler (input/mod.rs).

ElementStates == {"Pressed", "Released"}
KeyCodes == {"A", "B"}
MouseButtons == {"Left", "Right"}

Triggers ==
    {[kind |-> "KeyTrigger", code |-> c, state |-> s] :
        c \in {"A"}, s \in ElementStates}
    \cup {[kind |-> "MouseButtonTrigger", code |-> "Left", state |-> "Pressed"]}

TriggerTypes == {"Once", "Toggle"}

MovementStateNew(id, trigger, trigger_type) ==
    [id |-> id, trigger |-> trigger, trigger_type |-> trigger_type,
     is_activated |-> FALSE, is_triggered |-> FALSE]

MovementStateSetActive(state, b) ==
    [state EXCEPT !.is_activated = b, !.is_triggered = b]

\* A tick that only clears the activation flag.
MovementStateTickKeepsTrigger(state) ==
    [state EXCEPT !.is_activated = FALSE]

MovementStateTick(state) ==
    [state EXCEPT
        !.is_triggered = IF state.trigger_type = "Once" /\ ~state.is_activated
                         THEN FALSE ELSE @,
        !.is_activated = FALSE]

\* The window events a batch is made of; "Other" is any event the match
\* ignores.
Events ==
    {[kind |-> "KeyboardInput", virtual_keycode |-> k, state |-> s] :
        k \in {None} \cup {Some(c) : c \in KeyCodes}, s \in ElementStates}
    \cup {[kind |-> "MouseInput", button |-> b, state |-> s] :
            b \in MouseButtons, s \in ElementStates}
    \cup {[kind |-> "CursorMoved", position |-> 1], [kind |-> "Other"]}

\* The batches handle_events is called with: empty, one event, two events.
EventBatches ==
    {<< >>} \cup {<< e >> : e \in Events}
            \cup {<< e, f >> : e \in Events, f \in Events}

\* The body of the two inner loops for one movement state and one event.
MovementStateOnEvent(state, event) ==
    IF event.kind = "KeyboardInput" /\ state.trigger.kind = "KeyTrigger"
    THEN IF event.virtual_keycode.is_some
         THEN IF event.virtual_keycode.val = state.trigger.code
              THEN IF event.state = state.trigger.state
                   THEN MovementStateSetActive(state, TRUE)
                   ELSE MovementStateSetActive(state, FALSE)
              ELSE state
         ELSE state
    ELSE IF event.kind = "MouseInput"
              /\ state.trigger.kind = "MouseButtonTrigger"
    THEN IF event.button = state.trigger.code
         THEN IF event.state = state.trigger.state
              THEN MovementStateSetActive(state, TRUE)
              ELSE MovementStateSetActive(state, FALSE)
         ELSE state
    ELSE state

HandleEvent(handler, event) ==
    [handler EXCEPT
        !.states = [i \in 1 .. Len(@) |-> MovementStateOnEvent(@[i], event)],
        !.cursor_pos = IF event.kind = "CursorMoved"
                       THEN event.position ELSE @]

RECURSIVE HandleEventsFrom(_, _, _)
HandleEventsFrom(handler, batch, k) ==
    IF k > Len(batch) THEN handler
    ELSE HandleEventsFrom(HandleEvent(handler, batch[k]), batch, k + 1)

MovementStateHandlerHandleEvents(handler, batch) ==
    LET after == HandleEventsFrom(handler, batch, 1)
    IN  [after EXCEPT
            !.states = [i \in 1 .. Len(@) |-> MovementStateTick(@[i])]]

\* MovementStateHandler::new followed by add_state for each state.
MovementStateHandlerNew(states) ==
    [states |-> states, cursor_pos |-> 0]

StateLists ==
    {<< MovementStateNew("s1", t, ty) >> : t \in Triggers, ty \in TriggerTypes}
    \cup {<< MovementStateNew("s1", t, "Once"),
             MovementStateNew("s2", t, "Toggle") >> : t \in Triggers}

MovementCalls == { [op |-> "movement", states |-> l] : l \in StateLists }

MovementStateHandlerCreate ==
    /\ call.op = "movement"
    /\ ~ret.done
    /\ ret' = [done |-> TRUE, panic |-> FALSE,
               handler |-> MovementStateHandlerNew(call.states),
               events |-> None, before |-> None]
    /\ UNCHANGED << call, frame_vars >>

HandleEvents ==
    /\ call.op = "movement"
    /\ ret.done
    /\ \E batch \in EventBatches :
         ret' = [ret EXCEPT
                   !.handler = MovementStateHandlerHandleEvents(@, batch),
                   !.events = Some(batch),
                   !.before = Some(ret.handler)]
    /\ UNCHANGED << call, frame_vars >>

-----------------------------------------------------------------------------
\* ModelVertex (spatial/model/mod.rs).

MaxBoneAdds == 5

BoneIds == {0, 1}
\* Weights stand for f32 values; 0 is the weight a new vertex holds.
BoneWeights == {0, 1, 2}

ModelVertexNew ==
    [bone_ids |-> << -1, -1, -1, -1 >>, bone_weights |-> << 0, 0, 0, 0 >>]

\* The first i in 0..4 with bone_ids[i] == -1, as a 1-based index; 0 if none.
FirstFreeSlot(vertex) ==
    IF \E i \in 1 .. 4 : vertex.bone_ids[i] = -1
    THEN CHOOSE i \in 1 .. 4 :
            /\ vertex.bone_ids[i] = -1
            /\ \A j \in 1 .. (i - 1) : vertex.bone_ids[j] # -1
    ELSE 0

\* add_bone: the id is stored in the first free slot; the statement for the
\* weight, self.bone_weights[i] == weight, is a comparison and stores nothing.
ModelVertexAddBone(vertex, id, weight) ==
    LET i == FirstFreeSlot(vertex)
    IN  IF i = 0 THEN vertex
        ELSE [vertex EXCEPT !.bone_ids[i] = id]

ModelVertexCalls == { [op |-> "model_vertex"] }

ModelVertexCreate ==
    /\ call.op = "model_vertex"
    /\ ~ret.done
    /\ ret' = [done |-> TRUE, panic |-> FALSE, vertex |-> ModelVertexNew,
               adds |-> 0, last |-> None]
    /\ UNCHANGED << call, frame_vars >>

AddBone ==
    /\ call.op = "model_vertex"
    /\ ret.done
    /\ ret.adds < MaxBoneAdds
    /\ \E id \in BoneIds, weight \in BoneWeights :
         ret' = [ret EXCEPT
                   !.vertex = ModelVertexAddBone(@, id, weight),
                   !.adds = @ + 1,
                   !.last = Some([id |-> id, weight |-> weight,
                                  before |-> ret.vertex])]
    /\ UNCHANGED << call, frame_vars >>


-----------------------------------------------------------------------------
\* The resource layer on its own: one call, drawn from the bounded inputs.
ResCalls ==
    UploadTypeCalls \cup TextureMemoryCalls
        \cup BufferAllocEmptyCalls
        \cup BufferAllocCalls
        \cup RowPitchCalls
        \cup StagingCalls
        \cup UploadTextureCalls
        \cup DescriptorPoolCalls
        \cup DescriptorSetNewCalls
        \cup DescriptorSetCreateCalls
        \cup MaterialCalls
        \cup LoadShaderCalls
        \cup ColorFormatCalls
        \cup ViewportCalls
        \cup MeshPipelineCalls
        \cup HandledDataCalls
        \cup TextureBufferCalls
        \cup LightsListCalls
        \cup MovementCalls
        \cup ModelVertexCalls

InitRes ==
    /\ InitFrame
    /\ call \in ResCalls
    /\ ret = NotRun

NextRes ==
    \/ DeviceUploadTypeFor
    \/ TextureBufferNewMemoryType
    \/ AllocEmpty
    \/ Alloc
    \/ FillBuffer
    \/ UploadTextureRowPitch
    \/ UploadTextureStage
    \/ UploadTextureSubmit
    \/ GpuExecuteUpload
    \/ UploadTextureReturn
    \/ DescriptorPoolCreate
    \/ DescriptorSetNewCall
    \/ DescriptorSetCreateCall
    \/ WriteDescriptor
    \/ WriteInput
    \/ MaterialBufferCreate
    \/ MaterialCreateBufferCall
    \/ DeviceLoadShaderRaw
    \/ DeviceCreateColorFormat
    \/ SurfaceRebuildCall
    \/ SurfaceRebuildResized
    \/ MeshRenderPipelineCreateCall
    \/ HandledDataCreate
    \/ Push
    \/ Remove
    \/ TextureBufferCreate
    \/ TextureBufferEmpty
    \/ LightsListCreate
    \/ AddLight
    \/ RemoveLight
    \/ MovementStateHandlerCreate
    \/ HandleEvents
    \/ ModelVertexCreate
    \/ AddBone

SpecRes == InitRes /\ [][NextRes]_vars

-----------------------------------------------------------------------------
MatchingTypes(c) ==
    { i \in 0 .. (Len(c.memory_types) - 1) :
        /\ TypeSupported(c.type_mask, i)
        /\ c.properties \subseteq c.memory_types[i + 1] }

\* C12: the resolver returns the lowest-indexed memory type whose bit is set
\* in the mask and whose properties contain all desired flags, and fails
\* fatally when no type matches.
C12_LowestMatchingType ==
    (call.op \in {"upload_type_for", "texture_buffer_new"} /\ ret.done) =>
        IF MatchingTypes(call) = {}
        THEN ret.panic
        ELSE /\ ~ret.panic
             /\ ret.val \in MatchingTypes(call)
             /\ \A j \in MatchingTypes(call) : ret.val <= j

C12_Witness ==
    /\ call.op = "upload_type_for"
    /\ ret.done
    /\ ~ret.panic
    /\ ret.val = 1
    /\ Cardinality(MatchingTypes(call)) = 2
    /\ TypeSupported(call.type_mask, 0)

\* C13: for a Buffer, after any sequence of alloc_empty / alloc / fill_buffer
\* calls, count is the length of the array written last (the allocated element
\* count if nothing was written), and the size of the backing memory is the one
\* fixed at allocation: no fill_buffer grows or reallocates it.
C13_CountMatchesLastFill ==
    (call.op \in {"alloc_empty", "alloc"} /\ ret.done /\ ~ret.panic) =>
        /\ ret.count = IF ret.filled THEN Len(ret.mem) ELSE call.count
        /\ ret.size = call.count * call.stride + call.pad

C13_Witness ==
    /\ call.op = "alloc_empty"
    /\ ret.done
    /\ ~ret.panic
    /\ ret.fills = 2
    /\ call.count = 2
    /\ ret.count = 1
    /\ ret.size = 2 * call.stride + call.pad

IsSmallestMultiple(p, w4, a) ==
    /\ ModM(p, a) = 0
    /\ LeqM(w4, p)
    /\ ~LeqM(AddM(w4, U(a)), p)

IsPowerOfTwo(a) == \E k \in 0 .. 30 : a = 2 ^ k

\* C14 (as stated): for any (width, height, alignment), the row pitch computed
\* by upload_texture is the smallest multiple of alignment that is >= width*4.
C14_SmallestAlignedPitch ==
    (call.op = "row_pitch" /\ ret.done /\ ~ret.panic) =>
        IsSmallestMultiple(ret.row_pitch, Mul4M(U(call.width)), call.alignment)

\* C14 (amended): when alignment is a power of two and width*4 + alignment - 1
\* fits a u32, the row pitch computed by upload_texture is the smallest
\* multiple of alignment that is >= width*4.
C14_SmallestAlignedPitchPow2 ==
    (/\ call.op = "row_pitch"
     /\ ret.done
     /\ IsPowerOfTwo(call.alignment)
     /\ ~Overflows(AddM(Mul4M(U(call.width)), U(call.alignment - 1)))) =>
        /\ ~ret.panic
        /\ IsSmallestMultiple(ret.row_pitch, Mul4M(U(call.width)),
                              call.alignment)

C14_Witness ==
    /\ call.op = "row_pitch"
    /\ ret.done
    /\ ~ret.panic
    /\ call.width = 5
    /\ call.alignment = 8
    /\ ret.row_pitch = U(24)

\* The staging buffer read back row by row: width*4 bytes from each multiple
\* of the pitch.
RECURSIVE ReadBackRows(_, _, _, _, _)
ReadBackRows(staging, row_pitch, row_len, height, y) ==
    IF y >= height THEN << >>
    ELSE SubSeq(staging, y * row_pitch + 1, y * row_pitch + row_len)
         \o ReadBackRows(staging, row_pitch, row_len, height, y + 1)

\* C15: for every packed pixel buffer of width*height*4 bytes, the staging
\* buffer written by upload_texture holds row y at byte offset y*row_pitch, so
\* that reading it back row by row with that pitch gives the pixel buffer
\* again, and the buffer-to-image copy is described with the same pitch
\* (buffer_width*4 = row_pitch).
C15_StagingRoundTrip ==
    (call.op = "staging" /\ ret.done) =>
        /\ ~ret.panic
        /\ \A y \in 0 .. call.height - 1 :
             \A j \in 1 .. call.width * 4 :
               ret.staging[y * ret.row_pitch + j]
                   = call.data[y * call.width * 4 + j]
        /\ ReadBackRows(ret.staging, ret.row_pitch, call.width * 4,
                        call.height, 0) = call.data
        /\ ret.region.buffer_width * 4 = ret.row_pitch
        /\ ret.region.buffer_height = call.height
        /\ ret.region.image_extent = << call.width, call.height >>

C15_Witness ==
    /\ call.op = "staging"
    /\ ret.done
    /\ ~ret.panic
    /\ call.width = 1
    /\ call.height = 2
    /\ ret.row_pitch = 8
    /\ Len(ret.staging) = 16
    /\ ret.staging[9] = call.data[5]
    /\ ret.staging[5] = Unwritten

RECURSIVE RangeTotal(_, _)
RangeTotal(ranges, ty) ==
    IF ranges = << >> THEN 0
    ELSE (IF Head(ranges).ty = ty THEN Head(ranges).count ELSE 0)
         + RangeTotal(Tail(ranges), ty)

\* Over the (layout, count) pairs: count times the number of bindings of type
\* ty in the layout.
RECURSIVE DemandTotal(_, _)
DemandTotal(input_layouts, ty) ==
    IF input_layouts = << >> THEN 0
    ELSE Head(input_layouts).count
           * Cardinality({i \in 1 .. Len(Head(input_layouts).layout) :
                            Head(input_layouts).layout[i].ty = ty})
         + DemandTotal(Tail(input_layouts), ty)

\* C17: DescriptorPool::new passes to the backend ranges such that, for every
\* descriptor type, the total of the range counts is the sum over the
\* (layout, count) pairs of count times the layout's bindings of that type.
C17_PoolRangeTotals ==
    (call.op = "descriptor_pool_new" /\ ret.done) =>
        /\ ~ret.panic
        /\ \A ty \in DescriptorTypes :
             RangeTotal(ret.desc_ranges, ty) = DemandTotal(call.input_layouts, ty)

C17_Witness ==
    /\ call.op = "descriptor_pool_new"
    /\ ret.done
    /\ Len(call.input_layouts) = 2
    /\ call.input_layouts[1].count = 1
    /\ call.input_layouts[2].count = 3
    /\ Len(ret.desc_ranges) = 4
    /\ RangeTotal(ret.desc_ranges, "UniformBuffer") = 4
    /\ RangeTotal(ret.desc_ranges, "SampledImage") = 4

\* The inputs of create that carry a descriptor, by their positional index.
RECURSIVE WrittenIndices(_)
WrittenIndices(inputs) ==
    IF inputs = << >> THEN << >>
    ELSE (IF Head(inputs).has_descriptor THEN << Head(inputs).index >> ELSE << >>)
         \o WrittenIndices(Tail(inputs))

\* C18: a DescriptorSet's binding list is the layout's binding indices in
\* insertion order, and a write at positional index i (by create, write_input
\* or write_descriptor) targets the binding of the layout's i-th entry.
C18_PositionalBinding ==
    (/\ call.op \in {"descriptor_set_new", "descriptor_set_create"}
     /\ ret.done
     /\ ~ret.panic) =>
        /\ Len(ret.bindings) = Len(call.layout)
        /\ \A i \in 1 .. Len(call.layout) :
             ret.bindings[i] = call.layout[i].binding
        /\ ret.last_write.is_some =>
             ret.last_write.val.binding
                 = call.layout[ret.last_write.val.index + 1].binding
        /\ call.op = "descriptor_set_create" =>
             /\ Len(ret.create_writes) = Len(WrittenIndices(call.inputs))
             /\ \A k \in 1 .. Len(ret.create_writes) :
                  /\ ret.create_writes[k].index = WrittenIndices(call.inputs)[k]
                  /\ ret.create_writes[k].binding
                       = call.layout[ret.create_writes[k].index + 1].binding

C18_Witness ==
    /\ call.op = "descriptor_set_create"
    /\ ret.done
    /\ ~ret.panic
    /\ ret.bindings = << 2, 0 >>
    /\ Len(ret.create_writes) = 1
    /\ ret.create_writes[1] = [index |-> 0, binding |-> 2]
    /\ ret.last_write
         = Some([index |-> 1, via |-> "write_input", binding |-> 0])

\* C19: creating a material buffer or material descriptor set before the mesh
\* pipeline has registered its shared layout yields an error value on every
\* public path, with no panic and no descriptor pool or set allocated.
C19_UnregisteredLayoutIsError ==
    (call.op = "material" /\ ~call.layout.is_some /\ ret.done) =>
        /\ ~ret.panic
        /\ ret.is_err
        /\ ret.pools = 0
        /\ ret.sets = 0

\* C20: load_shader_raw(bytes) returns either the created shader module or the
\* error value "failed to create shader module"; a failure of the backend is
\* always returned as that error and never panics.
C20_ShaderErrorReturned ==
    (call.op = "load_shader_raw" /\ ret.done) =>
        /\ ~ret.panic
        /\ IF call.backend.ok
           THEN ~ret.is_err /\ ret.val = call.backend.module
           ELSE ret.is_err /\ ret.err = "Failed to create shader module."

C20_Witness ==
    /\ call.op = "load_shader_raw"
    /\ ret.done
    /\ ~call.backend.ok
    /\ call.backend.error = "CompilationFailed"
    /\ ~ret.panic
    /\ ret.is_err

\* C21: device creation returns, for every list of surface formats (absent,
\* containing an sRGB format, or containing none), the first sRGB format if
\* there is one and the fixed default otherwise, without failing.
C21_SrgbOrDefault ==
    (call.op = "color_format" /\ ret.done) =>
        /\ ~ret.panic
        /\ ret.val = IF call.formats.is_some /\ FindSrgb(call.formats.val).is_some
                     THEN FindSrgb(call.formats.val).val
                     ELSE "Rgba8Srgb"

\* C22: after a resize followed by rebuild(), the surface's viewport is
\* (0, 0, w, h) where (w, h) is the new window size: the rebuild queries the
\* capabilities anew, and the stored width and height equal the extent for
\* every extent the surface can report (no truncation, no wrap-around).
C22_ViewportMatchesExtent ==
    (call.op = "rebuild" /\ ret.done) =>
        ret.viewport = [x |-> 0, y |-> 0, w |-> call.queried.width,
                        h |-> call.queried.height]

\* C23: the vertex attribute layout baked into the mesh pipeline is exactly
\* position 3xf32 at 0, normal 3xf32 at 12, uv 2xf32 at 24, bone ids 4xi32 at
\* 32 and bone weights 4xf32 at 48, with no other attribute, and every
\* attribute lies within the vertex stride.
C23_VertexLayout ==
    (call.op = "mesh_pipeline" /\ ret.done) =>
        /\ ret.attributes
             = << [location |-> 0, binding |-> 0, format |-> "Rgb32Float", offset |-> 0],
                  [location |-> 1, binding |-> 0, format |-> "Rgb32Float", offset |-> 12],
                  [location |-> 2, binding |-> 0, format |-> "Rg32Float", offset |-> 24],
                  [location |-> 3, binding |-> 0, format |-> "Rgba32Int", offset |-> 32],
                  [location |-> 4, binding |-> 0, format |-> "Rgba32Float", offset |-> 48] >>
        /\ \A i \in 1 .. Len(ret.attributes) :
             ret.attributes[i].offset + FormatSize(ret.attributes[i].format)
                 <= ret.stride

\* C24: a handle returned by push gives access to the object it was made for:
\* after any pushes and removes of other objects get(handle) returns the value
\* pushed with that handle (every stored object's handle index is its current
\* position), and once the object itself is removed the handle reports
\* is_valid() = false and get returns None.
C24_HandleFollowsObject ==
    (call.op = "handled_data" /\ ret.done /\ ~ret.panic) =>
        /\ \A i \in 1 .. Len(ret.data) :
             ret.index_ptr[ret.data[i].handle] = i - 1
        /\ \A h \in 1 .. Len(ret.index_ptr) :
             IF \E i \in 1 .. Len(ret.data) : ret.data[i].handle = h
             THEN /\ HandleIsValid(ret, h)
                  /\ HandledDataGet(ret, h) = Some(PushedValue(h))
             ELSE /\ ~HandleIsValid(ret, h)
                  /\ HandledDataGet(ret, h) = None

C24_Witness ==
    /\ call.op = "handled_data"
    /\ ret.done
    /\ ~ret.panic
    /\ Len(ret.index_ptr) = 3
    /\ Len(ret.data) = 2
    /\ ret.index_ptr = << UsizeMax, 0, 1 >>
    /\ HandledDataGet(ret, 3) = Some(PushedValue(3))

\* C25: every call of exec_frame ends with the surface valid: whatever events,
\* failed acquires or failed presents the tick saw, a surface that is invalid
\* at the end of the tick is rebuilt before exec_frame returns.
C25_TickEndsValid ==
    [][ (pc # "poll" /\ pc' = "poll") => is_valid' ]_vars

C25_Witness ==
    /\ pc = "poll"
    /\ is_valid
    /\ did_rebuild
    /\ ~tick_since_rebuild
    /\ acq_result = "failed"
    /\ surface = "live"

\* C26: no Frame returned by SpatialPass::next refers to a framebuffer, fence
\* or command pool made before the most recent rebuild of the swapchain: the
\* aggregator is recreated before the next image is acquired, in every
\* interleaving of resizes, failed acquires, failed presents and ticks in
\* which the pass does not render.
C26_NoFrameFromStaleAggregator ==
    [][ (pc = "pass_next" /\ frame'.is_some) => ~agg_stale' ]_vars

\* C27: upload_texture never reads outside the source pixel data: for every
\* texture it is given, the default texture of Texture::new() used by
\* TextureBuffer::empty included, the data holds at least width*height*4
\* bytes, so that every row slice [y*width*4, (y+1)*width*4) is in bounds.
C27_RowSlicesInBounds ==
    (call.op = "texture_buffer_create" /\ ret.done) =>
        /\ Len(call.texture.data)
             >= call.texture.width * call.texture.height * 4
        /\ ~ret.panic

\* C28: for a LightsList, after any sequence of add_light and remove_light
\* calls, count stays between 0 and MAX_LIGHTS and equals the number of lights
\* stored; remove_light(index) with index < count returns the light at that
\* index, shifts the later ones down and decrements count, without indexing
\* outside the array.
C28_LightsCount ==
    (call.op = "lights_list" /\ ret.done) =>
        IF ret.panic THEN ~(ret.index < ret.count)
        ELSE /\ ret.count \in 0 .. MAX_LIGHTS
             /\ ret.count
                  = Cardinality({i \in 1 .. MAX_LIGHTS :
                                   ret.lights[i] # DefaultLight})

\* Whether an event is a key or mouse-button event for the trigger's key or
\* button.
MatchesTrigger(trigger, event) ==
    \/ /\ trigger.kind = "KeyTrigger"
       /\ event.kind = "KeyboardInput"
       /\ event.virtual_keycode = Some(trigger.code)
    \/ /\ trigger.kind = "MouseButtonTrigger"
       /\ event.kind = "MouseInput"
       /\ event.button = trigger.code

\* The last matching event of the batch has the trigger's element state.
ActivatedBy(trigger, batch) ==
    \E k \in 1 .. Len(batch) :
        /\ MatchesTrigger(trigger, batch[k])
        /\ batch[k].state = trigger.state
        /\ \A j \in (k + 1) .. Len(batch) : ~MatchesTrigger(trigger, batch[j])

\* C29: for a MovementState of TriggerType::Once, triggered() is true after a
\* handle_events call exactly when the last matching key or mouse-button event
\* of that call's batch had the trigger's element state; in particular it is
\* false after a call whose batch has no activating event for it.
C29_OnceTriggeredIffActivated ==
    (call.op = "movement" /\ ret.done /\ ret.events.is_some) =>
        \A i \in 1 .. Len(ret.handler.states) :
            LET s == ret.handler.states[i]
            IN  s.trigger_type = "Once" =>
                    (s.is_triggered <=> ActivatedBy(s.trigger, ret.events.val))

\* A triggered Once state went back to untriggered in a call whose batch had
\* events but none that activated it.
C29_Witness ==
    /\ call.op = "movement"
    /\ ret.done
    /\ ret.events.is_some
    /\ ret.before.is_some
    /\ Len(ret.events.val) > 1
    /\ \E i \in 1 .. Len(ret.handler.states) :
         /\ ret.handler.states[i].trigger_type = "Once"
         /\ ret.before.val.states[i].is_triggered
         /\ ~ret.handler.states[i].is_triggered

\* C30: add_bone(id, weight) records the bone in the first free slot (the
\* lowest i with bone_ids[i] = -1), setting bone_ids[i] = id and
\* bone_weights[i] = weight, and leaves the vertex unchanged when all four
\* slots are taken.
C30_AddBoneFillsFirstFreeSlot ==
    (call.op = "model_vertex" /\ ret.done /\ ret.last.is_some) =>
        LET before == ret.last.val.before
            free == {i \in 1 .. 4 : before.bone_ids[i] = -1}
        IN  IF free = {} THEN ret.vertex = before
            ELSE LET i == CHOOSE k \in free : \A j \in free : k <= j
                 IN  ret.vertex =
                        [before EXCEPT !.bone_ids[i] = ret.last.val.id,
                                       !.bone_weights[i] = ret.last.val.weight]

====
